---- MODULE Spec2Model ----
(***************************************************************************)
(* Model of two pieces of arcgis-rest-js:                                  *)
(*   - chunk(array, size), the array partitioning utility, stepped one     *)
(*     loop iteration at a time so that termination, the loop index and    *)
(*     the behaviour for size <= 0 are visible;                            *)
(*   - addItemJsonData / addItemData / addItemResource of                  *)
(*     packages/arcgis-rest-portal/src/items/add.ts, which overlay the     *)
(*     caller's requestOptions.params on derived defaults and hand the     *)
(*     options object to request(), and addItemRelationship of the same    *)
(*     file, which builds its options with appendCustomParams.             *)
(***************************************************************************)
EXTENDS Integers, Sequences, FiniteSets, TLC

\* ------------------------------------------------------------------ bounds
MaxLen == 3
\* Sizes below zero that are tried, besides zero itself.
NegSizes == 1
MaxSize == 3
MaxCalls == 2

\* A loop that never exits (size <= 0) is cut off after this many pushes.
\* For size > 0 at most MaxLen chunks are ever pushed, so the cap is not
\* felt by any call with a positive size.
MaxChunks == MaxLen + 1

Elems == {1, 2}
Callers == {1, 2}
Sizes == (0 - NegSizes)..MaxSize
Arrays == UNION {[1..n -> Elems] : n \in 0..MaxLen}

VARIABLES
    pc,              \* per caller: "idle", "loop" (inside the for loop), "done"
    array,           \* per caller: the array object passed to chunk
    size,            \* per caller: the size argument
    i,               \* per caller: the loop index
    chunks,          \* per caller: the accumulator of the current or last call
    result,          \* per caller: the value returned by the call, once "done"
    input,           \* per caller: contents of array at the moment of the call
    requestOptions,  \* the options object handed to the add* functions
    callerOptions,   \* requestOptions as it was when the last add* call began
    sent,            \* sequence of calls made to request(): [fn, endpoint, params]
    nCalls           \* number of add* calls made

chunkVars == <<pc, array, size, i, chunks, result, input>>
addVars == <<requestOptions, callerOptions, sent, nCalls>>
vars == <<pc, array, size, i, chunks, result, input,
          requestOptions, callerOptions, sent, nCalls>>

\* ------------------------------------------------------------ JS helpers
Min(a, b) == IF a < b THEN a ELSE b
Max(a, b) == IF a > b THEN a ELSE b

\* Array.prototype.slice's clamping of a relative index against the length.
RelIndex(k, len) == IF k < 0 THEN Max(len + k, 0) ELSE Min(k, len)

\* Mutant of slice: the end bound is taken one too small.
sliceShort(arr, start, end) ==
    LET k == RelIndex(start, Len(arr))
        final == RelIndex(end - 1, Len(arr))
        count == Max(final - k, 0)
    IN  [j \in 1..count |-> arr[k + j]]

\* Mutant of slice: the end bound is taken one too large.
sliceLong(arr, start, end) ==
    LET k == RelIndex(start, Len(arr))
        final == RelIndex(end + 1, Len(arr))
        count == Max(final - k, 0)
    IN  [j \in 1..count |-> arr[k + j]]

\* array.slice(start, end): the elements at 0-based positions
\* [start, end) after clamping; empty when end <= start.
slice(arr, start, end) ==
    LET k == RelIndex(start, Len(arr))
        final == RelIndex(end, Len(arr))
        count == Max(final - k, 0)
    IN  [j \in 1..count |-> arr[k + j]]

\* Mutant of sliceReceiver: splice(start, end - start) removes the range
\* from the receiver.
spliceReceiver(arr, start, end) ==
    LET k == RelIndex(start, Len(arr))
        final == RelIndex(end, Len(arr))
        count == Max(final - k, 0)
    IN  [j \in 1..(Len(arr) - count) |->
            IF j <= k THEN arr[j] ELSE arr[j + count]]

\* The receiver of array.slice(start, end) after the call: slice copies,
\* the receiver is left as it was.
sliceReceiver(arr, start, end) == arr

\* Mutant of emptyResult: one empty chunk.
emptyResultNested == << <<>> >>

\* `return [];` for an empty array.
emptyResult == <<>>

\* Mutant of newChunks: the accumulator outlives the call.
staleChunks(old) == old

\* `const chunks = [];` : a fresh accumulator, whatever was there before.
newChunks(old) == <<>>

\* Mutant of loopCond: <= instead of <.
loopCondLe(idx, len) == idx <= len

\* The for loop's condition `i < array.length`.
loopCond(idx, len) == idx < len

\* Mutant of nextIndex: the index is not advanced.
nextIndexStuck(idx, sz) == idx

\* Mutant of nextIndex: the index advances by one element too many.
nextIndexSkip(idx, sz) == idx + sz + 1

\* The for loop's update `i += size`.
nextIndex(idx, sz) == idx + sz

\* ------------------------------------------------------------ chunk
\* chunk(a, s) is entered by caller c: the empty-array early return, or the
\* set-up of the accumulator and the loop index.
Call(c, a, s) ==
    /\ pc[c] \in {"idle", "done"}
    /\ array' = [array EXCEPT ![c] = a]
    /\ input' = [input EXCEPT ![c] = a]
    /\ size' = [size EXCEPT ![c] = s]
    /\ IF Len(a) = 0
       THEN \* lines 5-7; the locals of the loop are never created
            /\ result' = [result EXCEPT ![c] = emptyResult]
            /\ pc' = [pc EXCEPT ![c] = "done"]
            /\ chunks' = [chunks EXCEPT ![c] = <<>>]
            /\ i' = [i EXCEPT ![c] = 0]
       ELSE \* lines 9 and 11; nothing has been returned yet
            /\ chunks' = [chunks EXCEPT ![c] = newChunks(chunks[c])]
            /\ i' = [i EXCEPT ![c] = 0]
            /\ pc' = [pc EXCEPT ![c] = "loop"]
            /\ result' = [result EXCEPT ![c] = <<>>]
    /\ UNCHANGED addVars

\* One iteration of the for loop: push the slice, advance the index.
LoopStep(c) ==
    /\ pc[c] = "loop"
    /\ loopCond(i[c], Len(array[c]))
    /\ Len(chunks[c]) < MaxChunks
    /\ chunks' = [chunks EXCEPT ![c] =
                     Append(chunks[c], slice(array[c], i[c], i[c] + size[c]))]
    /\ array' = [array EXCEPT ![c] =
                     sliceReceiver(array[c], i[c], i[c] + size[c])]
    /\ i' = [i EXCEPT ![c] = nextIndex(i[c], size[c])]
    /\ UNCHANGED <<pc, size, result, input>>
    /\ UNCHANGED addVars

\* The loop condition fails: `return chunks;`.
Return(c) ==
    /\ pc[c] = "loop"
    /\ ~loopCond(i[c], Len(array[c]))
    /\ result' = [result EXCEPT ![c] = chunks[c]]
    /\ pc' = [pc EXCEPT ![c] = "done"]
    /\ UNCHANGED <<array, size, i, chunks, input>>
    /\ UNCHANGED addVars

\* ------------------------------------------------------------ add.ts
Undefined == "undefined"
DataVals == {Undefined, "v"}
PrivateVals == {Undefined, "false", "true"}
ParamVals == {Undefined, "p"}
Keys == {"text", "file", "fileName", "access", "f"}
ParamObjects == UNION {[D -> ParamVals] : D \in SUBSET Keys}
NoKeys == [k \in {} |-> Undefined]

\* The keys addItemRelationship hands to appendCustomParams.
RelationshipKeys == {"originItemId", "destinationItemId", "relationshipType"}

\* The params objects a caller of addItemRelationship can build.
RelationshipParamObjects ==
    UNION {[D -> ParamVals] : D \in SUBSET {"f", "originItemId"}}

\* The options objects a caller of addItemJsonData, addItemData or
\* addItemResource can build.  hasParams = FALSE stands for a requestOptions
\* without a params property (params is then empty here).
ItemOptions ==
    {o \in [data : DataVals, resource : DataVals, name : DataVals,
            content : DataVals, private : PrivateVals,
            originItemId : {Undefined}, destinationItemId : {Undefined},
            relationshipType : {Undefined},
            hasParams : BOOLEAN, params : ParamObjects] :
        ~o.hasParams => o.params = NoKeys}

\* The options objects a caller of addItemRelationship can build.
RelationshipOptions ==
    {o \in [data : {Undefined}, resource : {Undefined}, name : {Undefined},
            content : {Undefined}, private : {Undefined},
            originItemId : {Undefined, "3ef"},
            destinationItemId : {Undefined, "ae7"},
            relationshipType : {Undefined, "Service2Layer"},
            hasParams : BOOLEAN, params : RelationshipParamObjects] :
        ~o.hasParams => o.params = NoKeys}

Options == ItemOptions \cup RelationshipOptions

\* JS truthiness of the values an option can take here: undefined and the
\* boolean false are falsy, true and the non-empty strings are truthy.
Truthy(v) == v \notin {Undefined, "false"}

\* `typeof v === "boolean"`.
IsBoolean(v) == v \in {"true", "false"}

\* `...requestOptions.params`: the own keys of params, none when undefined.
Spread(o) == IF o.hasParams THEN o.params ELSE NoKeys

\* Mutant of ObjectLiteral: the spread comes first, the derived keys win.
ObjectLiteralSpreadFirst(derived, spread) ==
    [k \in (DOMAIN derived) \cup (DOMAIN spread) |->
        IF k \in DOMAIN derived THEN derived[k] ELSE spread[k]]

\* `{ key: value, ..., ...spread }`: later properties overwrite earlier ones.
ObjectLiteral(derived, spread) ==
    [k \in (DOMAIN derived) \cup (DOMAIN spread) |->
        IF k \in DOMAIN spread THEN spread[k] ELSE derived[k]]

\* request(url, requestOptions): recorded, not executed.
request(fn, endpoint, o) ==
    Append(sent, [fn |-> fn, endpoint |-> endpoint, params |-> o.params])

\* appendCustomParams(customOptions, keys, baseOptions) of
\* @esri/arcgis-rest-request, whose source is not part of the files modelled
\* here: options = { params: {}, ...baseOptions, ...customOptions }, then
\* every key of keys whose value in customOptions is truthy or a boolean is
\* assigned into options.params.  The value is the params of the options
\* returned.
appendCustomParams(customOptions, keys, baseParams) ==
    LET start == IF customOptions.hasParams
                 THEN customOptions.params ELSE baseParams
        custom == [k \in {q \in keys : Truthy(customOptions[q])
                                        \/ IsBoolean(customOptions[q])} |->
                      customOptions[k]]
    IN  ObjectLiteral(start, custom)

\* The assignments of appendCustomParams go into customOptions.params
\* itself when customOptions has a params property (the spread copies the
\* reference); otherwise they go into the object of baseOptions.
customOptionsAfter(customOptions, keys, baseParams) ==
    IF customOptions.hasParams
    THEN [customOptions EXCEPT
             !.params = appendCustomParams(customOptions, keys, baseParams)]
    ELSE customOptions

addItemRelationship ==
    /\ nCalls < MaxCalls
    /\ LET base == ObjectLiteral(NoKeys, Spread(requestOptions))
           options == [params |-> appendCustomParams(requestOptions,
                                                     RelationshipKeys, base)]
       IN  /\ requestOptions' =
                  customOptionsAfter(requestOptions, RelationshipKeys, base)
           /\ sent' = request("addItemRelationship", "addRelationship", options)
    /\ callerOptions' = requestOptions
    /\ nCalls' = nCalls + 1
    /\ UNCHANGED chunkVars

addItemJsonData ==
    /\ nCalls < MaxCalls
    /\ LET merged == [requestOptions EXCEPT
                         !.hasParams = TRUE,
                         !.params = ObjectLiteral(
                             [k \in {"text"} |-> requestOptions.data],
                             Spread(requestOptions))]
       IN  /\ requestOptions' = merged
           /\ sent' = request("addItemJsonData", "update", merged)
    /\ callerOptions' = requestOptions
    /\ nCalls' = nCalls + 1
    /\ UNCHANGED chunkVars

addItemData ==
    /\ nCalls < MaxCalls
    /\ LET merged == [requestOptions EXCEPT
                         !.hasParams = TRUE,
                         !.params = ObjectLiteral(
                             [k \in {"file"} |-> requestOptions.data],
                             Spread(requestOptions))]
       IN  /\ requestOptions' = merged
           /\ sent' = request("addItemData", "update", merged)
    /\ callerOptions' = requestOptions
    /\ nCalls' = nCalls + 1
    /\ UNCHANGED chunkVars

addItemResource ==
    /\ nCalls < MaxCalls
    /\ LET derived == [k \in {"file", "fileName", "text", "access"} |->
                          CASE k = "file" -> requestOptions.resource
                            [] k = "fileName" -> requestOptions.name
                            [] k = "text" -> requestOptions.content
                            [] k = "access" ->
                                 IF Truthy(requestOptions.private)
                                 THEN "private" ELSE "inherit"]
           merged == [requestOptions EXCEPT
                         !.hasParams = TRUE,
                         !.params = ObjectLiteral(derived,
                                                  Spread(requestOptions))]
       IN  /\ requestOptions' = merged
           /\ sent' = request("addItemResource", "addResources", merged)
    /\ callerOptions' = requestOptions
    /\ nCalls' = nCalls + 1
    /\ UNCHANGED chunkVars

\* ------------------------------------------------------------ specifications
IdleOptions ==
    [data |-> Undefined, resource |-> Undefined, name |-> Undefined,
     content |-> Undefined, private |-> Undefined,
     originItemId |-> Undefined, destinationItemId |-> Undefined,
     relationshipType |-> Undefined,
     hasParams |-> FALSE, params |-> NoKeys]

InitChunk ==
    /\ pc = [c \in Callers |-> "idle"]
    /\ array = [c \in Callers |-> <<>>]
    /\ size = [c \in Callers |-> 1]
    /\ i = [c \in Callers |-> 0]
    /\ chunks = [c \in Callers |-> <<>>]
    /\ result = [c \in Callers |-> <<>>]
    /\ input = [c \in Callers |-> <<>>]

Init ==
    /\ InitChunk
    /\ requestOptions = IdleOptions
    /\ callerOptions = IdleOptions
    /\ sent = <<>>
    /\ nCalls = 0

Next ==
    \/ \E c \in Callers, a \in Arrays, s \in Sizes : Call(c, a, s)
    \/ \E c \in Callers : LoopStep(c)
    \/ \E c \in Callers : Return(c)

Spec == Init /\ [][Next]_vars

\* A call that has been entered runs to completion: the code is synchronous.
Fairness == \A c \in Callers : WF_vars(LoopStep(c)) /\ WF_vars(Return(c))

\* Termination is a matter of one call at a time: one caller making call
\* after call, each run to completion.
NextOne ==
    \/ \E a \in Arrays, s \in Sizes : Call(1, a, s)
    \/ LoopStep(1)
    \/ Return(1)

FairSpec == Init /\ [][NextOne]_vars /\ Fairness

InitAdd ==
    /\ InitChunk
    /\ requestOptions \in Options
    /\ callerOptions = requestOptions
    /\ sent = <<>>
    /\ nCalls = 0

NextAdd ==
    \/ addItemJsonData
    \/ addItemData
    \/ addItemRelationship
    \/ addItemResource

SpecAdd == InitAdd /\ [][NextAdd]_vars

\* ------------------------------------------------------------ properties
RECURSIVE Flatten(_)
Flatten(seqs) ==
    IF seqs = <<>> THEN <<>> ELSE Head(seqs) \o Flatten(Tail(seqs))

\* Caller c holds the result of a call made with a positive size.
Returned(c) == pc[c] = "done" /\ size[c] > 0

\* C1: for a positive size, concatenating the returned chunks in order gives
\* back exactly the array that was passed in.
C1_ConcatenationIdentity ==
    \A c \in Callers : Returned(c) => Flatten(result[c]) = input[c]

C1_Witness ==
    \E c \in Callers :
        /\ Returned(c)
        /\ input[c] = <<1, 2, 1>>
        /\ size[c] = 2
        /\ Len(result[c]) = 2

\* C2: for a non-empty array and a positive size, chunk k holds the elements
\* at 0-based positions k*size .. min((k+1)*size, n) - 1, in order.
C2_ChunkPositions ==
    \A c \in Callers :
        (Returned(c) /\ Len(input[c]) > 0) =>
            \A k \in 0..(Len(result[c]) - 1) :
                LET lo == k * size[c]
                    hi == Min((k + 1) * size[c], Len(input[c]))
                IN  /\ lo < hi
                    /\ result[c][k + 1] = [j \in 1..(hi - lo) |-> input[c][lo + j]]

C2_Witness ==
    \E c \in Callers :
        /\ Returned(c)
        /\ input[c] = <<2, 1, 1>>
        /\ size[c] = 2
        /\ result[c][2] = <<1>>

\* C3: a call with size <= 0 is rejected at once: it never gets into the
\* loop, never pushes a chunk and never returns a value.
C3_FailFast ==
    \A c \in Callers :
        (pc[c] # "idle" /\ size[c] <= 0) => pc[c] = "threw"

\* C4: for a non-empty array and a positive size the number of chunks is
\* ceil(n / size).
C4_ChunkCount ==
    \A c \in Callers :
        (Returned(c) /\ Len(input[c]) > 0) =>
            Len(result[c]) = (Len(input[c]) + size[c] - 1) \div size[c]

C4_Witness ==
    \E c \in Callers :
        /\ Returned(c)
        /\ Len(input[c]) = 3
        /\ size[c] = 2
        /\ Len(result[c]) = 2

\* C5: every chunk but the last has exactly size elements; the last has
\* n mod size elements when that is non-zero and size elements otherwise;
\* no chunk is empty.
C5_UniformExceptLast ==
    \A c \in Callers :
        Returned(c) =>
            LET m == Len(result[c])
                r == Len(input[c]) % size[c]
            IN  /\ \A k \in 1..(m - 1) : Len(result[c][k]) = size[c]
                /\ m > 0 => Len(result[c][m]) = (IF r # 0 THEN r ELSE size[c])
                /\ \A k \in 1..m : Len(result[c][k]) \in 1..size[c]

C5_Witness ==
    \E c \in Callers :
        /\ Returned(c)
        /\ Len(input[c]) = 3
        /\ size[c] = 2
        /\ Len(result[c][1]) = 2
        /\ Len(result[c][2]) = 1

\* C6: an empty array with a positive size gives zero chunks.
C6_EmptyInput ==
    \A c \in Callers :
        (Returned(c) /\ input[c] = <<>>) => result[c] = <<>>

C6_Witness ==
    \E c \in Callers : Returned(c) /\ input[c] = <<>> /\ size[c] = 3

\* C7: with a positive size every call that is entered returns, the loop
\* index grows on every iteration, and a return carries a value (there is no
\* other way out of the call).
C7_Terminates ==
    /\ [][\A c \in Callers :
            (size[c] > 0 /\ pc[c] = "loop" /\ chunks'[c] # chunks[c])
                => i'[c] > i[c]]_vars
    /\ \A c \in Callers : (pc[c] = "loop" /\ size[c] > 0) ~> (pc[c] = "done")

C7_Witness ==
    \E c \in Callers :
        /\ Returned(c)
        /\ Len(input[c]) = 3
        /\ size[c] = 1
        /\ i[c] = 3

\* C8: with a positive size the array passed in has, after the call, the
\* length and the elements it had before the call.
C8_InputNotMutated ==
    \A c \in Callers : Returned(c) => array[c] = input[c]

C8_Witness ==
    \E c \in Callers :
        /\ Returned(c)
        /\ array[c] = <<1, 2, 2>>
        /\ size[c] = 2
        /\ Len(result[c]) = 2

\* C9: two finished calls with the same array and the same positive size
\* hold equal results, whatever calls were made before or in between.
C9_Deterministic ==
    \A c, d \in Callers :
        (Returned(c) /\ Returned(d) /\ input[c] = input[d] /\ size[c] = size[d])
            => result[c] = result[d]

C9_Witness ==
    /\ Returned(1)
    /\ Returned(2)
    /\ input[1] = <<2, 2, 1>>
    /\ input[2] = <<2, 2, 1>>
    /\ size[1] = 2
    /\ size[2] = 2
    /\ Len(result[1]) = 2

\* The last call made to request().
LastSent == sent[Len(sent)]

\* The three functions that overlay the caller's params on derived defaults.
OverlayFns == {"addItemJsonData", "addItemData", "addItemResource"}

\* C10: in addItemJsonData, addItemData and addItemResource the params sent
\* are the derived defaults overlaid by the caller's params: every caller key
\* keeps the caller's value, derived keys the caller did not supply get the
\* derived value, no other key appears, and every call makes exactly one
\* request.
C10_ParamsOverlay ==
    /\ Len(sent) = nCalls
    /\ (nCalls > 0 /\ LastSent.fn \in OverlayFns) =>
        LET o == callerOptions
            given == IF o.hasParams THEN DOMAIN o.params ELSE {}
            r == LastSent
            derivedKeys ==
                CASE r.fn = "addItemJsonData" -> {"text"}
                  [] r.fn = "addItemData" -> {"file"}
                  [] r.fn = "addItemResource" ->
                        {"file", "fileName", "text", "access"}
            derivedVal(k) ==
                CASE r.fn = "addItemJsonData" -> o.data
                  [] r.fn = "addItemData" -> o.data
                  [] r.fn = "addItemResource" /\ k = "file" -> o.resource
                  [] r.fn = "addItemResource" /\ k = "fileName" -> o.name
                  [] r.fn = "addItemResource" /\ k = "text" -> o.content
                  [] r.fn = "addItemResource" /\ k = "access" ->
                        IF o.private = "true" THEN "private" ELSE "inherit"
        IN  /\ DOMAIN r.params = given \cup derivedKeys
            /\ \A k \in given : r.params[k] = o.params[k]
            /\ \A k \in derivedKeys \ given : r.params[k] = derivedVal(k)

C10_Witness ==
    /\ nCalls > 0
    /\ LastSent.fn = "addItemResource"
    /\ callerOptions.hasParams
    /\ DOMAIN callerOptions.params = {"access", "f"}
    /\ callerOptions.private = "true"
    /\ LastSent.params["access"] = "p"
    /\ LastSent.params["file"] = "v"

====
